---- MODULE Spec2Model ----
(***************************************************************************)
(* Model of notebooks/analysis.ipynb: the two ranking cells.               *)
(*                                                                         *)
(*   top_artists       = get_top_artists(data, label="All data")           *)
(*   top_artists_month = get_top_artists(data, month, year, label_month)   *)
(*   merged = pd.concat([...], axis=1).fillna(0)                           *)
(*   merged[(label_month, "play_count")] = ... .astype(int)                *)
(*   merged.head(top_num)                                                  *)
(*                                                                         *)
(* and the same statements for get_top_songs.  Strings (artist names,      *)
(* titles) are modelled by integers that stand for their place in the      *)
(* lexicographic order of strings, which is the only thing pandas reads    *)
(* from them besides equality.  A data frame is a record                   *)
(* [label, index, rows]; a cell is a record [t, v] that keeps the dtype    *)
(* of the value ("str", "int", "float", "nan").                            *)
(***************************************************************************)
EXTENDS Integers, Sequences, FiniteSets, TLC

\* ------------------------------------------------------------------ bounds
MaxLen == 2         \* plays drawn freely at the head of the dataset
TieSpan == 2        \* positions whose tie priority the sort may permute
BulkSize == 10      \* artists 2, 3, ... with one further play each, that may follow

\* ------------------------------------------------------- program constants
top_num == 10
None == 0           \* month=None / year=None (no month or year is 0)

Artists == {1, 2}
Titles == {1, 2}
Dates == { [month |-> 4, year |-> 2025],
           [month |-> 4, year |-> 2024] }
TodayMonths == {4, 5}
TodayYears == {2025}

label_all == "All data"
label_month == "Data for MM-YYYY"     \* differs from label_all for every date

\* ------------------------------------------------------------------- cells
Str(v) == [t |-> "str", v |-> v]
Int64(v) == [t |-> "int", v |-> v]
Float64(v) == [t |-> "float", v |-> v]
NaN == [t |-> "nan", v |-> 0]

\* ----------------------------------------------------------------- dataset
Plays == [title : Titles, artist : Artists, date : Dates]

RECURSIVE SeqsUpTo(_, _)
SeqsUpTo(S, n) ==
    IF n = 0 THEN { <<>> }
    ELSE LET shorter == SeqsUpTo(S, n - 1)
         IN  shorter \cup { Append(s, x) : s \in {q \in shorter : Len(q) = n - 1}, x \in S }

BulkPlays ==
    [i \in 1..BulkSize |->
        [title |-> 1, artist |-> 1 + i, date |-> [month |-> 4, year |-> 2025]]]

Datasets == { s \o b : s \in SeqsUpTo(Plays, MaxLen), b \in { <<>>, BulkPlays } }

Perms(n) == { f \in [1..n -> 1..n] : \A i, j \in 1..n : f[i] = f[j] => i = j }

\* data: the loaded plays; month, year: date.today(); build: the tie
\* priorities of the sort in use; pc: the next statement of the notebook;
\* call: a direct call of one of the two functions and its result
VARIABLES data, month, year, build, pc,
          top_artists, top_artists_month, top_songs, top_songs_month,
          merged, shown, error, call

vars == << data, month, year, build, pc,
           top_artists, top_artists_month, top_songs, top_songs_month,
           merged, shown, error, call >>

\* ------------------------------------------------------------ pandas steps
\* fault variant: the year condition of the filter is left out
FilterPeriod_MonthOnly(df, m, y) ==
    SelectSeq(df, LAMBDA r : r.date.month = m)

\* df[(df["date"].dt.month == month) & (df["date"].dt.year == year)]
FilterPeriod(df, m, y) ==
    SelectSeq(df, LAMBDA r : r.date.month = m /\ r.date.year = y)

KeyOf(r, subset) == [i \in 1..Len(subset) |-> r[subset[i]]]

\* lexicographic order of the group keys (tuples of equal length)
KeyLess(a, b) ==
    \E i \in 1..Len(a) : a[i] < b[i] /\ \A j \in 1..(i - 1) : a[j] = b[j]

\* the keys of a set of group keys in ascending order
RECURSIVE SortedKeys(_)
SortedKeys(keys) ==
    IF keys = {} THEN << >>
    ELSE LET first == CHOOSE k \in keys : \A j \in keys : ~KeyLess(j, k)
         IN  << first >> \o SortedKeys(keys \ { first })

\* df.groupby(subset).size(): one entry per distinct key, keys sorted
GroupBySize(df, subset) ==
    LET keyOf == [i \in 1..Len(df) |-> KeyOf(df[i], subset)]
        at == SortedKeys({ keyOf[i] : i \in 1..Len(df) })
    IN  [i \in 1..Len(at) |->
            [key |-> at[i],
             play_count |-> Cardinality({ x \in 1..Len(df) : keyOf[x] = at[i] })]]

\* tie priority of a position of the grouped series under this build's sort
TiePriority(p) == IF p <= TieSpan THEN build[p] ELSE p

\* fault variant: ascending=True
CountBefore_Ascending(a, b) == a < b

\* ascending=False
CountBefore(a, b) == a > b

\* counts.sort_values(ascending=False): descending by count; the default
\* kind is quicksort, which is not stable, so the order of equal counts is
\* whatever the build's sort produces (a fixed function of the input).
Before(counts, q, p) ==
    \/ CountBefore(counts[q].play_count, counts[p].play_count)
    \/ /\ counts[q].play_count = counts[p].play_count
       /\ TiePriority(q) < TiePriority(p)

\* the positions P of the series in the order the sort leaves them in
RECURSIVE SortedPositions(_, _)
SortedPositions(counts, P) ==
    IF P = {} THEN << >>
    ELSE LET first == CHOOSE p \in P : \A q \in P \ { p } : Before(counts, p, q)
         IN  << first >> \o SortedPositions(counts, P \ { first })

SortValues(counts) ==
    LET at == SortedPositions(counts, 1..Len(counts))
    IN  [i \in 1..Len(counts) |-> counts[at[i]]]

\* df.value_counts(subset=..., ascending=False)
ValueCounts(df, subset) == SortValues(GroupBySize(df, subset))

\* fault variant: the index is left to start at 0
Ranking_FromZero(counts, subset, label) ==
    LET n == Len(counts)
        cols == { subset[j] : j \in 1..Len(subset) } \cup {"play_count"}
    IN  [label |-> label,
         columns |-> cols,
         index |-> [i \in 1..n |-> i - 1],
         rows |-> [i \in 1..n |->
                     [c \in cols |->
                        IF c = "play_count"
                        THEN Int64(counts[i].play_count)
                        ELSE Str(counts[i].key[CHOOSE j \in 1..Len(subset) : subset[j] = c])]]]

\* .reset_index(name="play_count"); df.index = df.index + 1;
\* df.columns = pd.MultiIndex.from_product([[label], df.columns])
Ranking(counts, subset, label) ==
    LET n == Len(counts)
        range == [i \in 1..n |-> i - 1]
        row(i) == [c \in { subset[j] : j \in 1..Len(subset) } \cup {"play_count"} |->
                     IF c = "play_count"
                     THEN Int64(counts[i].play_count)
                     ELSE Str(counts[i].key[CHOOSE j \in 1..Len(subset) : subset[j] = c])]
    IN  [label |-> label,
         columns |-> { subset[j] : j \in 1..Len(subset) } \cup {"play_count"},
         index |-> [i \in 1..n |-> range[i] + 1],
         rows |-> [i \in 1..n |-> row(i)]]

\* fault variant: "or" in place of "and"
PeriodGiven_Either(m, y) == m # None \/ y # None

\* if month is not None and year is not None
PeriodGiven(m, y) == m # None /\ y # None

\* fault variant: the branches of the filter condition are exchanged
get_top_Inverted(df, m, y, label, subset) ==
    LET f == IF PeriodGiven(m, y) THEN df ELSE FilterPeriod(df, m, y)
    IN  Ranking(ValueCounts(f, subset), subset, label)

get_top(df, m, y, label, subset) ==
    LET f == IF PeriodGiven(m, y) THEN FilterPeriod(df, m, y) ELSE df
    IN  Ranking(ValueCounts(f, subset), subset, label)

get_top_artists(df, m, y, label) == get_top(df, m, y, label, <<"artist">>)

get_top_songs(df, m, y, label) == get_top(df, m, y, label, <<"title", "artist">>)

NoFrame == [label |-> "", columns |-> {}, index |-> <<>>, rows |-> <<>>]
NoTable == [labels |-> <<>>, index |-> <<>>, rows |-> <<>>]

Init ==
    /\ data \in Datasets
    /\ month \in TodayMonths
    /\ year \in TodayYears
    /\ build \in Perms(TieSpan)
    /\ pc = "artists_all"
    /\ top_artists = NoFrame
    /\ top_artists_month = NoFrame
    /\ top_songs = NoFrame
    /\ top_songs_month = NoFrame
    /\ merged = NoTable
    /\ shown = NoTable
    /\ error = "none"
    /\ call = [fn |-> "none", month |-> None, year |-> None, result |-> NoFrame]

\* ------------------------------------------------------------ merged table
Max(a, b) == IF a >= b THEN a ELSE b
Min(a, b) == IF a <= b THEN a ELSE b

Labels(f) == { f.index[i] : i \in 1..Len(f.index) }

\* a set of row labels in ascending order
RECURSIVE Ascending(_)
Ascending(S) ==
    IF S = {} THEN << >>
    ELSE LET first == CHOOSE x \in S : \A z \in S : x <= z
         IN  << first >> \o Ascending(S \ { first })

\* fault variant: join="inner"
JoinIndex_Inner(l, r) == Ascending(Labels(l) \cap Labels(r))

\* the index of pd.concat(axis=1): the outer join of the frames' row labels
JoinIndex(l, r) == Ascending(Labels(l) \cup Labels(r))

\* fault variant: the rows of the shorter frame are aligned with the last
\* rows of the joined index instead of with their own labels
Reindex_Bottom(f, idx, cols) ==
    LET n == Len(idx)
        k == Len(f.rows)
        holes == k < n
        cell(i, c) ==
            IF i <= n - k THEN NaN
            ELSE LET v == f.rows[i - (n - k)][c]
                 IN  IF holes /\ v.t = "int" THEN Float64(v.v) ELSE v
    IN  [i \in 1..n |-> [c \in cols |-> cell(i, c)]]

\* one frame's columns reindexed to the joined index: a row label the frame
\* lacks gives NaN, and an int64 column that receives a NaN becomes float64
Reindex(f, idx, cols) ==
    LET n == Len(idx)
        has == Labels(f)
        holes == \E i \in 1..n : idx[i] \notin has
        pos(x) == CHOOSE p \in 1..Len(f.index) : f.index[p] = x
        cell(i, c) ==
            IF idx[i] \notin has THEN NaN
            ELSE LET v == f.rows[pos(idx[i])][c]
                 IN  IF holes /\ v.t = "int" THEN Float64(v.v) ELSE v
    IN  [i \in 1..n |-> [c \in cols |-> cell(i, c)]]

\* pd.concat([left, right], axis=1)
Concat(l, r) ==
    LET idx == JoinIndex(l, r)
        cols == l.columns \cup r.columns
        lrows == Reindex(l, idx, cols)
        rrows == Reindex(r, idx, cols)
    IN  [labels |-> << l.label, r.label >>,
         index |-> idx,
         rows |-> [i \in 1..Len(idx) |->
                     [s \in { l.label, r.label } |->
                        IF s = l.label THEN lrows[i] ELSE rrows[i]]]]

\* .fillna(0): every NaN becomes 0, a float in the numeric play_count
\* column and the integer object 0 in the columns of strings
FillValue(c) == IF c = "play_count" THEN Float64(0) ELSE Int64(0)

\* fault variant: fillna is left out
Fillna_Missing(t) == t

Fillna(t) ==
    [t EXCEPT !.rows =
        [i \in 1..Len(t.rows) |->
            [s \in DOMAIN t.rows[i] |->
                [c \in DOMAIN t.rows[i][s] |->
                    IF t.rows[i][s][c] = NaN THEN FillValue(c) ELSE t.rows[i][s][c]]]]]

\* a column that holds a NaN cannot be cast to int (astype raises)
HasNaN(t, s, c) == \E i \in 1..Len(t.rows) : t.rows[i][s][c] = NaN

\* fault variant: the column is not converted back
AstypeInt_Missing(t, s, c) == t

\* merged[(label, col)] = merged[(label, col)].astype(int)
AstypeInt(t, s, c) ==
    [t EXCEPT !.rows =
        [i \in 1..Len(t.rows) |->
            [t.rows[i] EXCEPT ![s][c] = Int64(t.rows[i][s][c].v)]]]

\* merged.head(n)
Head_(t, n) ==
    [t EXCEPT !.index = SubSeq(t.index, 1, Min(n, Len(t.index))),
              !.rows = SubSeq(t.rows, 1, Min(n, Len(t.rows)))]

\* ----------------------------------------------------------------- actions
\* cell 2: top artists
TopArtists ==
    /\ pc = "artists_all"
    /\ top_artists' = get_top_artists(data, None, None, label_all)
    /\ pc' = "artists_month"
    /\ UNCHANGED << data, month, year, build, top_artists_month, top_songs,
                    top_songs_month, merged, shown, error, call >>

TopArtistsMonth ==
    /\ pc = "artists_month"
    /\ top_artists_month' = get_top_artists(data, month, year, label_month)
    /\ pc' = "artists_merge"
    /\ UNCHANGED << data, month, year, build, top_artists, top_songs,
                    top_songs_month, merged, shown, error, call >>

MergedArtists ==
    /\ pc = "artists_merge"
    /\ merged' = Fillna(Concat(top_artists, top_artists_month))
    /\ pc' = "artists_astype"
    /\ UNCHANGED << data, month, year, build, top_artists, top_artists_month,
                    top_songs, top_songs_month, shown, error, call >>

AstypeArtists ==
    /\ pc = "artists_astype"
    /\ IF HasNaN(merged, label_month, "play_count")
       THEN /\ error' = "IntCastingNaNError"
            /\ pc' = "error"
            /\ UNCHANGED merged
       ELSE /\ merged' = AstypeInt(merged, label_month, "play_count")
            /\ pc' = "artists_head"
            /\ UNCHANGED error
    /\ UNCHANGED << data, month, year, build, top_artists, top_artists_month,
                    top_songs, top_songs_month, shown, call >>

HeadArtists ==
    /\ pc = "artists_head"
    /\ shown' = Head_(merged, top_num)
    /\ pc' = "songs_all"
    /\ UNCHANGED << data, month, year, build, top_artists, top_artists_month,
                    top_songs, top_songs_month, merged, error, call >>

\* cell 3: top songs
TopSongs ==
    /\ pc = "songs_all"
    /\ top_songs' = get_top_songs(data, None, None, label_all)
    /\ pc' = "songs_month"
    /\ UNCHANGED << data, month, year, build, top_artists, top_artists_month,
                    top_songs_month, merged, shown, error, call >>

TopSongsMonth ==
    /\ pc = "songs_month"
    /\ top_songs_month' = get_top_songs(data, month, year, label_month)
    /\ pc' = "songs_merge"
    /\ UNCHANGED << data, month, year, build, top_artists, top_artists_month,
                    top_songs, merged, shown, error, call >>

MergedSongs ==
    /\ pc = "songs_merge"
    /\ merged' = Fillna(Concat(top_songs, top_songs_month))
    /\ pc' = "songs_astype"
    /\ UNCHANGED << data, month, year, build, top_artists, top_artists_month,
                    top_songs, top_songs_month, shown, error, call >>

AstypeSongs ==
    /\ pc = "songs_astype"
    /\ IF HasNaN(merged, label_month, "play_count")
       THEN /\ error' = "IntCastingNaNError"
            /\ pc' = "error"
            /\ UNCHANGED merged
       ELSE /\ merged' = AstypeInt(merged, label_month, "play_count")
            /\ pc' = "songs_head"
            /\ UNCHANGED error
    /\ UNCHANGED << data, month, year, build, top_artists, top_artists_month,
                    top_songs, top_songs_month, shown, call >>

HeadSongs ==
    /\ pc = "songs_head"
    /\ shown' = Head_(merged, top_num)
    /\ pc' = "done"
    /\ UNCHANGED << data, month, year, build, top_artists, top_artists_month,
                    top_songs, top_songs_month, merged, error, call >>

\* a call of either function on the loaded data with any combination of its
\* optional month and year arguments (label left at its default)
Call ==
    /\ call.fn = "none"
    /\ \E fn \in {"get_top_artists", "get_top_songs"},
          m \in {None, month}, y \in {None, year} :
          call' = [fn |-> fn, month |-> m, year |-> y,
                   result |-> IF fn = "get_top_artists"
                              THEN get_top_artists(data, m, y, "")
                              ELSE get_top_songs(data, m, y, "")]
    /\ UNCHANGED << data, month, year, build, pc, top_artists, top_artists_month,
                    top_songs, top_songs_month, merged, shown, error >>

Next ==
    \/ TopArtists
    \/ TopArtistsMonth
    \/ MergedArtists
    \/ AstypeArtists
    \/ HeadArtists
    \/ TopSongs
    \/ TopSongsMonth
    \/ MergedSongs
    \/ AstypeSongs
    \/ HeadSongs

\* the notebook, run from its first cell to its last
Spec == Init /\ [][Next]_vars

\* the two functions, called directly
SpecCall == Init /\ [][Call]_vars

\* ================================================================ properties
Order == << "artists_all", "artists_month", "artists_merge", "artists_astype",
            "artists_head", "songs_all", "songs_month", "songs_merge",
            "songs_astype", "songs_head", "done" >>

\* how many statements of the notebook have run (0 after an exception)
Step == IF pc = "error" THEN 0 ELSE CHOOSE i \in 1..Len(Order) : Order[i] = pc

All == 1..Len(data)
Matching == { i \in All : data[i].date.month = month /\ data[i].date.year = year }
ArtistKey(i) == << data[i].artist >>
SongKey(i) == << data[i].title, data[i].artist >>
ByArtist == << "artist" >>
BySong == << "title", "artist" >>

Size(f) == Len(f.rows)
Count(f, i) == f.rows[i]["play_count"].v
RowKey(f, i, subset) == [j \in 1..Len(subset) |-> f.rows[i][subset[j]].v]
Groups(S, key(_)) == { key(x) : x \in S }
Plain(n) == [i \in 1..n |-> i]

RECURSIVE SumCounts(_, _)
SumCounts(f, n) == IF n = 0 THEN 0 ELSE Count(f, n) + SumCounts(f, n - 1)

\* ----------------------------------------------------------------------- C1
Descending(f) == \A i \in 1..(Size(f) - 1) : Count(f, i) >= Count(f, i + 1)

\* C1: every ranking returned by get_top_artists / get_top_songs, with or
\* without a (month, year) filter, is ordered by play_count descending:
\* play_count at rank i >= play_count at rank i+1.
C1_Descending ==
    /\ Descending(top_artists)
    /\ Descending(top_artists_month)
    /\ Descending(top_songs)
    /\ Descending(top_songs_month)

C1_Witness ==
    /\ Step >= 8
    /\ \E i \in 1..(Size(top_artists) - 1) : Count(top_artists, i) > Count(top_artists, i + 1)
    /\ \E i \in 1..(Size(top_songs_month) - 1) :
          Count(top_songs_month, i) > Count(top_songs_month, i + 1)

\* ----------------------------------------------------------------------- C2
Contiguous(f) == f.index = Plain(Size(f))

Truncated(f, S, key(_)) ==
    Contiguous(f) /\ Size(f) = Min(top_num, Cardinality(Groups(S, key)))

Complete(f, S, key(_)) ==
    Contiguous(f) /\ Size(f) = Cardinality(Groups(S, key))

\* the entries of one side of a table that are entries of its ranking
Real(t, s, subset) == { i \in 1..Len(t.rows) : t.rows[i][s][subset[1]].t = "str" }

Limited(t, l, r, subset) ==
    /\ t.index = Plain(Min(top_num, Max(Size(l), Size(r))))
    /\ Len(t.rows) = Len(t.index)
    /\ Real(t, l.label, subset) = 1..Min(top_num, Size(l))
    /\ Real(t, r.label, subset) = 1..Min(top_num, Size(r))

\* C2 as stated: the ranks of a returned ranking are 1, 2, ... without gaps
\* and the ranking has min(top_num, number of distinct groups) entries.
C2_Original ==
    /\ Step >= 2 => Truncated(top_artists, All, ArtistKey)
    /\ Step >= 3 => Truncated(top_artists_month, Matching, ArtistKey)
    /\ Step >= 7 => Truncated(top_songs, All, SongKey)
    /\ Step >= 8 => Truncated(top_songs_month, Matching, SongKey)

\* C2 amended: the ranks of a returned ranking are 1, 2, ... without gaps and
\* the ranking has one entry for every distinct group (get_top_* does not
\* truncate); the limit top_num is applied to the merged table by
\* head(top_num), so the displayed table has ranks
\* 1..min(top_num, max(len(left), len(right))) and shows
\* min(top_num, number of distinct groups) entries of each ranking.
C2_Amended ==
    /\ Step >= 2 => Complete(top_artists, All, ArtistKey)
    /\ Step >= 3 => Complete(top_artists_month, Matching, ArtistKey)
    /\ Step >= 7 => Complete(top_songs, All, SongKey)
    /\ Step >= 8 => Complete(top_songs_month, Matching, SongKey)
    /\ Step \in 6..10 => Limited(shown, top_artists, top_artists_month, ByArtist)
    /\ Step >= 11 => Limited(shown, top_songs, top_songs_month, BySong)

C2_Witness ==
    /\ Step \in 6..10
    /\ Size(top_artists) > top_num
    /\ Len(shown.rows) = top_num
    /\ Size(top_artists_month) \in 1..(Size(top_artists) - 1)

\* ----------------------------------------------------------------------- C3
FirstSeen(S, key(_), k) ==
    CHOOSE x \in S : key(x) = k /\ \A z \in S : key(z) = k => x <= z

FirstOccurrenceOrder(f, S, key(_), subset) ==
    \A i, j \in 1..Size(f) :
        (i < j /\ Count(f, i) = Count(f, j)) =>
            FirstSeen(S, key, RowKey(f, i, subset)) < FirstSeen(S, key, RowKey(f, j, subset))

\* C3: groups of equal play_count appear in the ranking in the order in
\* which each group first occurs in the (filtered) dataset.
C3_FirstOccurrence ==
    /\ Step >= 2 => FirstOccurrenceOrder(top_artists, All, ArtistKey, ByArtist)
    /\ Step >= 3 => FirstOccurrenceOrder(top_artists_month, Matching, ArtistKey, ByArtist)
    /\ Step >= 7 => FirstOccurrenceOrder(top_songs, All, SongKey, BySong)
    /\ Step >= 8 => FirstOccurrenceOrder(top_songs_month, Matching, SongKey, BySong)

\* ----------------------------------------------------------------------- C4
Exact(f, S, key(_), subset) ==
    /\ \A i, j \in 1..Size(f) : RowKey(f, i, subset) = RowKey(f, j, subset) => i = j
    /\ { RowKey(f, i, subset) : i \in 1..Size(f) } = Groups(S, key)
    /\ \A i \in 1..Size(f) :
          /\ Count(f, i) = Cardinality({ x \in S : key(x) = RowKey(f, i, subset) })
          /\ Count(f, i) >= 1
    /\ SumCounts(f, Size(f)) = Cardinality(S)

\* C4: with month and year given, the ranking counts exactly the records of
\* that calendar month of that year: every distinct key among them has exactly
\* one entry, whose play_count is the number of those records with the key
\* (>= 1); no other key appears; the play_counts sum to the number of
\* matching records.
C4_ExactCounts ==
    /\ Step >= 3 => Exact(top_artists_month, Matching, ArtistKey, ByArtist)
    /\ Step >= 8 => Exact(top_songs_month, Matching, SongKey, BySong)

C4_Witness ==
    /\ Step >= 8
    /\ Size(top_songs_month) >= 2
    /\ \E i \in Matching, j \in All \ Matching :
          /\ SongKey(i) = SongKey(j)
          /\ data[i].date.month = data[j].date.month

\* ----------------------------------------------------------------------- C5
NoCellIsNaN(t) ==
    \A i \in 1..Len(t.rows) : \A s \in DOMAIN t.rows[i] :
        \A c \in DOMAIN t.rows[i][s] : t.rows[i][s][c] # NaN

ValidTable(t, l) ==
    /\ Len(t.rows) = Size(l)
    /\ t.index = Plain(Size(l))
    /\ NoCellIsNaN(t)

\* C5: if the dataset is empty or no record matches the month/year filter,
\* the month ranking is empty and the merge completes with a valid (possibly
\* empty) comparison table; no statement raises.
C5_EmptyIsNotAnError ==
    /\ error = "none"
    /\ pc # "error"
    /\ Matching = {} =>
          /\ Step >= 3 => top_artists_month.rows = << >>
          /\ Step >= 8 => top_songs_month.rows = << >>
          /\ Step \in 5..8 => ValidTable(merged, top_artists)
          /\ Step >= 10 => ValidTable(merged, top_songs)
    /\ data = << >> =>
          /\ Step >= 2 => top_artists.rows = << >>
          /\ Step >= 7 => top_songs.rows = << >>
          /\ Step >= 5 => merged.rows = << >>

C5_Witness ==
    /\ Step >= 10
    /\ Matching = {}
    /\ data # << >>
    /\ Len(merged.rows) >= 2

\* ----------------------------------------------------------------------- C6
RowsMax(t, l, r) ==
    /\ Len(t.rows) = Max(Size(l), Size(r))
    /\ t.index = Plain(Max(Size(l), Size(r)))

\* C6: the comparison table has exactly max(len(left), len(right)) rows, at
\* rank positions 1..max.
C6_RowCount ==
    /\ Step \in 4..8 => RowsMax(merged, top_artists, top_artists_month)
    /\ Step >= 9 => RowsMax(merged, top_songs, top_songs_month)

C6_Witness ==
    /\ Step = 9
    /\ Size(top_songs_month) >= 1
    /\ Size(top_songs) > Size(top_songs_month)

\* ----------------------------------------------------------------------- C7
\* the side `miss` of row i holds the defaults and the side `keep` its entry
Defaulted(t, i, miss, keep, subset) ==
    /\ \A j \in 1..Len(subset) : t.rows[i][miss.label][subset[j]] = Int64(0)
    /\ t.rows[i][miss.label]["play_count"] = Int64(0)
    /\ i <= Size(keep)
    /\ t.rows[i][keep.label] = keep.rows[i]

Defaults(t, l, r, subset) ==
    \A i \in 1..Len(t.rows) :
        /\ i > Size(r) => Defaulted(t, i, r, l, subset)
        /\ i > Size(l) => Defaulted(t, i, l, r, subset)

Kept(t, f) ==
    \A i \in 1..Size(f) :
        LET at == { j \in 1..Len(t.index) : t.index[j] = f.index[i] }
        IN  /\ at = { i }
            /\ t.rows[i][f.label] = f.rows[i]
            /\ \A j \in 1..Len(t.rows) : t.rows[j][f.label] = f.rows[i] => j = i

\* C8: the merge never loses, reorders or re-ranks entries: the entry at rank
\* i of either ranking is in exactly one row of the comparison table, the
\* row at rank i, with its key and play_count unchanged.
C8_NothingLost ==
    /\ Step \in 5..8 => Kept(merged, top_artists) /\ Kept(merged, top_artists_month)
    /\ Step >= 10 => Kept(merged, top_songs) /\ Kept(merged, top_songs_month)

C8_Witness ==
    /\ Step = 10
    /\ Size(top_songs_month) >= 2
    /\ Size(top_songs) > Size(top_songs_month)
    /\ RowKey(top_songs, 1, BySong) # RowKey(top_songs_month, 1, BySong)

\* ----------------------------------------------------------------------- C9
Called == call.fn # "none"

ExactlyOneGiven == (call.month = None) # (call.year = None)

SameRanking(f, g) == f.index = g.index /\ f.rows = g.rows

\* C9: a call with exactly one of month and year given returns the ranking
\* of the unfiltered all-data call of the same function.
C9_FilterNeedsBoth ==
    (Called /\ ExactlyOneGiven) =>
        /\ call.fn = "get_top_artists" =>
              SameRanking(call.result, get_top_artists(data, None, None, label_all))
        /\ call.fn = "get_top_songs" =>
              SameRanking(call.result, get_top_songs(data, None, None, label_all))

C9_Witness ==
    /\ Called
    /\ call.month # None
    /\ call.year = None
    /\ Size(call.result) >= 2
    /\ \E i \in All : data[i].date.year # year
    /\ \E i \in All : data[i].date.month # call.month

\* ---------------------------------------------------------------------- C10
Within(m, a, subset) ==
    /\ Size(m) <= Size(a)
    /\ \A i \in 1..Size(m) : \E j \in 1..Size(a) :
          /\ RowKey(a, j, subset) = RowKey(m, i, subset)
          /\ Count(m, i) <= Count(a, j)

LeftNeverFilled(t, subset) ==
    \A i \in 1..Len(t.rows) :
        /\ \A j \in 1..Len(subset) : t.rows[i][label_all][subset[j]].t = "str"
        /\ t.rows[i][label_all]["play_count"].t = "int"
        /\ t.rows[i][label_all]["play_count"].v >= 1

\* C10: the month ranking is never longer than the all-data ranking of the
\* same dataset and no key has more plays in the month than overall; so the
\* all-data side of the merged table never holds a default and its
\* play_count column stays integer.
C10_MonthWithinAll ==
    /\ Step >= 3 => Within(top_artists_month, top_artists, ByArtist)
    /\ Step >= 8 => Within(top_songs_month, top_songs, BySong)
    /\ Step \in 4..8 => LeftNeverFilled(merged, ByArtist)
    /\ Step >= 9 => LeftNeverFilled(merged, BySong)

C10_Witness ==
    /\ Step = 5
    /\ Size(top_artists_month) >= 1
    /\ Size(top_artists_month) < Size(top_artists)
    /\ \E i \in 1..Size(top_artists_month), j \in 1..Size(top_artists) :
          /\ RowKey(top_artists, j, ByArtist) = RowKey(top_artists_month, i, ByArtist)
          /\ Count(top_artists_month, i) < Count(top_artists, j)
    /\ merged.rows[Len(merged.rows)][label_month]["artist"] = Int64(0)
====
